---- MODULE Spec2Model ----
(***************************************************************************)
(* Model of KenDoApp (the main process of the pie menu): init(), the IPC   *)
(* handlers 'hide-window' and 'simulate-shortcut', the hide timer and      *)
(* showMenu() with its Promise.all over getFocusedWindow()/getPointer(),   *)
(* quit(); and of the editor's Toolbar (its tab events), a second program  *)
(* with a specification of its own.                                        *)
(*                                                                         *)
(* One event loop: every action below is one task of the loop (a handler   *)
(* or a promise continuation together with the microtasks it triggers).    *)
(***************************************************************************)
EXTENDS Integers, Sequences, FiniteSets

\* ------------------------------------------------------------------ bounds

\* Number of shortcut firings (showMenu() calls) in one run.
MaxFires == 2

\* Number of hide timers armed at the same time.
MaxTimers == 2

\* Largest delay (in clock ticks) a 'hide-window' command carries.
MaxDelay == 1

\* Number of 'shown.bs.tab' events on the Toolbar in one run.
MaxTabEvents == 3

\* ------------------------------------------------------------------ values

\* this.hideTimeout: null, or the handle the last setTimeout() returned.
Null == "null"
Handle == "handle"

\* Results of backend.getPointer() and backend.getFocusedWindow(). No handler
\* branches on them: one value of each shape tells a pointer from a window in the
\* message sent.
Pointers == {[x |-> 512, y |-> 300]}

Windows == {[wmClass |-> "firefox"]}

\* Delays the renderer passes with 'hide-window'.
Delays == 0..MaxDelay

\* A promise returned by a backend query.
PendingQuery == [st |-> "pending"]
Resolved(v) == [st |-> "resolved", val |-> v]
RejectedQuery == [st |-> "rejected"]

VARIABLES
    initState,      \* position of init(): "start", "backendReady", "bound", "ready"; or
                    \*   "failed" (backend.init() or bindShortcut() rejected),
                    \*   "windowFailed" (initWindow() rejected)
    shortcutBound,  \* the backend holds the global shortcut whose callback is showMenu
    windowCreated,  \* this.window # null (the IPC handlers are registered in the same task)
    visible,        \* BrowserWindow: shown / hidden
    focusable,      \* BrowserWindow: focusable flag
    ignoreMouse,    \* BrowserWindow: ignore-mouse-events (click-through) flag
    hideTimeout,    \* this.hideTimeout: Null or Handle
    timers,         \* armed timers of the event loop, in arming order: [rem, held]
                    \*   rem: ticks until due; held: hideTimeout is this timer's handle
    calls,          \* showMenu() calls in firing order: the two query promises and Promise.all
    sent,           \* 'show-menu' messages sent to the renderer, in order
    errors,         \* invocations whose failure console.error logged
    quitState,      \* "running", or "quit" once quit() was called
    unbindCalls,    \* number of backend.unbindAllShortcuts() calls
    injectedShown,  \* some backend.simulateShortcut() call was made with the surface shown
    large,          \* Toolbar: #kando-editor-toolbar-area carries the class 'large'
    shownTabs,      \* Toolbar: the tabs 'shown.bs.tab' fired on, in order
    emitted         \* Toolbar: the 'expand' / 'collapse' events emitted, in order

\* quit()'s variables.
lifecycle == <<quitState, unbindCalls, injectedShown>>

\* The Toolbar's variables.
toolbar == <<large, shownTabs, emitted>>

vars == <<initState, shortcutBound, windowCreated, visible, focusable, ignoreMouse,
          hideTimeout, timers, calls, sent, errors, quitState, unbindCalls, injectedShown,
          large, shownTabs, emitted>>

surface == <<visible, focusable, ignoreMouse>>

\* ------------------------------------------------------------------ timers

\* The armed timer this.hideTimeout refers to, if any: a handle whose timer has
\* fired or was cleared refers to none.
HeldTimers(ts) == {k \in DOMAIN ts : ts[k].held}

RECURSIVE RemoveAt(_, _)
RemoveAt(ts, k) ==
    IF k = 1 THEN Tail(ts) ELSE <<Head(ts)>> \o RemoveAt(Tail(ts), k - 1)

\* this.hideTimeout = v: no armed timer is referred to by the old handle any more.
Unhold(ts) == [k \in DOMAIN ts |-> [ts[k] EXCEPT !.held = FALSE]]

\* this.hideTimeout = setTimeout(callback, delay)
SetTimeout(ts, delay) == Append(Unhold(ts), [rem |-> delay, held |-> TRUE])

\* clearTimeout(this.hideTimeout): disarms the timer the handle refers to; nothing
\* happens for the handle of a timer that has fired or was cleared.
ClearTimeout(ts) == SelectSeq(ts, LAMBDA t : ~t.held)

\* A timer is due once its delay has elapsed.
DueTimers == {k \in DOMAIN timers : timers[k].rem = 0}

\* ------------------------------------------------------------------ init()

AppInit ==
    /\ initState = "start"
    /\ shortcutBound = FALSE
    /\ windowCreated = FALSE
    /\ visible = FALSE
    /\ focusable = TRUE
    /\ ignoreMouse = FALSE
    /\ hideTimeout = Null
    /\ timers = <<>>
    /\ calls = <<>>
    /\ sent = <<>>
    /\ errors = {}
    /\ quitState = "running"
    /\ unbindCalls = 0
    /\ injectedShown = FALSE

\* KenDoApp after construction (the Toolbar, a program of the renderer, at rest).
Init ==
    /\ AppInit
    /\ large = FALSE
    /\ shownTabs = <<>>
    /\ emitted = <<>>

\* await this.backend.init() resolves.
BackendInitOk ==
    /\ initState = "start"
    /\ initState' = "backendReady"
    /\ UNCHANGED <<shortcutBound, windowCreated, surface, hideTimeout, timers, calls,
                   sent, errors>>
    /\ UNCHANGED <<lifecycle, toolbar>>

\* await this.backend.init() rejects: init() rejects.
BackendInitFail ==
    /\ initState = "start"
    /\ initState' = "failed"
    /\ UNCHANGED <<shortcutBound, windowCreated, surface, hideTimeout, timers, calls,
                   sent, errors>>
    /\ UNCHANGED <<lifecycle, toolbar>>

\* await this.backend.bindShortcut(...) resolves: the shortcut is live from here on.
BindShortcutOk ==
    /\ initState = "backendReady"
    /\ initState' = "bound"
    /\ shortcutBound' = TRUE
    /\ UNCHANGED <<windowCreated, surface, hideTimeout, timers, calls, sent, errors>>
    /\ UNCHANGED <<lifecycle, toolbar>>

\* A bindShortcut() that rejects after it has registered the shortcut.
BindShortcutFail_StillBound ==
    /\ initState = "backendReady"
    /\ initState' = "failed"
    /\ shortcutBound' = TRUE
    /\ UNCHANGED <<windowCreated, surface, hideTimeout, timers, calls, sent, errors>>
    /\ UNCHANGED <<lifecycle, toolbar>>

\* await this.backend.bindShortcut(...) rejects: init() rejects.
BindShortcutFail ==
    /\ initState = "backendReady"
    /\ initState' = "failed"
    /\ UNCHANGED <<shortcutBound, windowCreated, surface, hideTimeout, timers, calls,
                   sent, errors>>
    /\ UNCHANGED <<lifecycle, toolbar>>

\* initWindow() resolves (new BrowserWindow{show: false}, loadURL done), this.window
\* is assigned and initRenderer() registers the IPC handlers.
InitWindowOk ==
    /\ initState = "bound"
    /\ initState' = "ready"
    /\ windowCreated' = TRUE
    /\ visible' = FALSE
    /\ focusable' = TRUE
    /\ ignoreMouse' = FALSE
    /\ UNCHANGED <<shortcutBound, hideTimeout, timers, calls, sent, errors>>
    /\ UNCHANGED <<lifecycle, toolbar>>

\* window.loadURL() rejects: init() rejects with the shortcut already bound.
InitWindowFail ==
    /\ initState = "bound"
    /\ initState' = "windowFailed"
    /\ UNCHANGED <<shortcutBound, windowCreated, surface, hideTimeout, timers, calls,
                   sent, errors>>
    /\ UNCHANGED <<lifecycle, toolbar>>

\* ------------------------------------------------------------------ IPC handlers

\* 'hide-window' without the setIgnoreMouseEvents(true) call.
HideWindow_NoClickThrough(delay) ==
    /\ initState = "ready"
    /\ Len(timers) < MaxTimers
    /\ focusable' = FALSE
    /\ timers' = SetTimeout(timers, delay)
    /\ hideTimeout' = Handle
    /\ UNCHANGED <<initState, shortcutBound, windowCreated, visible, ignoreMouse, calls,
                   sent, errors>>
    /\ UNCHANGED <<lifecycle, toolbar>>

\* ipcMain.on('hide-window', (event, delay) => ...)
HideWindow(delay) ==
    /\ initState = "ready"
    /\ Len(timers) < MaxTimers
    /\ focusable' = FALSE
    /\ ignoreMouse' = TRUE
    /\ timers' = SetTimeout(timers, delay)
    /\ hideTimeout' = Handle
    /\ UNCHANGED <<initState, shortcutBound, windowCreated, visible, calls, sent, errors>>
    /\ UNCHANGED <<lifecycle, toolbar>>

\* The timer callback without its `this.hideTimeout = null`.
TimerFire_KeepsHandle ==
    /\ DueTimers # {}
    /\ LET k == CHOOSE d \in DueTimers : \A e \in DueTimers : d <= e
       IN timers' = RemoveAt(timers, k)
    /\ visible' = FALSE
    /\ UNCHANGED <<initState, shortcutBound, windowCreated, focusable, ignoreMouse,
                   hideTimeout, calls, sent, errors>>
    /\ UNCHANGED <<lifecycle, toolbar>>

\* The callback of setTimeout in 'hide-window'. Due timers run in arming order.
TimerFire ==
    /\ DueTimers # {}
    /\ LET k == CHOOSE d \in DueTimers : \A e \in DueTimers : d <= e
       IN timers' = Unhold(RemoveAt(timers, k))
    /\ visible' = FALSE
    /\ hideTimeout' = Null
    /\ UNCHANGED <<initState, shortcutBound, windowCreated, focusable, ignoreMouse, calls,
                   sent, errors>>
    /\ UNCHANGED <<lifecycle, toolbar>>

\* Time passes: one tick less on every armed timer. A due timer runs first.
Tick ==
    /\ timers # <<>>
    /\ DueTimers = {}
    /\ timers' = [k \in DOMAIN timers |-> [timers[k] EXCEPT !.rem = @ - 1]]
    /\ UNCHANGED <<initState, shortcutBound, windowCreated, surface, hideTimeout, calls,
                   sent, errors>>
    /\ UNCHANGED <<lifecycle, toolbar>>

\* 'simulate-shortcut' with the key combo injected before the surface is hidden.
SimulateShortcut_InjectFirst ==
    /\ initState = "ready"
    /\ injectedShown' = (injectedShown \/ visible)
    /\ visible' = FALSE
    /\ UNCHANGED <<initState, shortcutBound, windowCreated, focusable, ignoreMouse,
                   hideTimeout, timers, calls, sent, errors, quitState, unbindCalls,
                   toolbar>>

\* ipcMain.on('simulate-shortcut', () => ...): this.window.hide(), then
\* this.backend.simulateShortcut(combo) with the surface as hide() left it.
SimulateShortcut ==
    /\ initState = "ready"
    /\ visible' = FALSE
    /\ injectedShown' = (injectedShown \/ visible')
    /\ UNCHANGED <<initState, shortcutBound, windowCreated, focusable, ignoreMouse,
                   hideTimeout, timers, calls, sent, errors, quitState, unbindCalls,
                   toolbar>>

\* ------------------------------------------------------------------ quit()

\* backend.unbindAllShortcuts(): releases every binding made through the backend.
UnbindAllShortcuts(bound) == FALSE

\* quit() without its call of backend.unbindAllShortcuts().
Quit_NoUnbind ==
    /\ quitState = "running"
    /\ quitState' = "quit"
    /\ UNCHANGED <<initState, shortcutBound, windowCreated, surface, hideTimeout, timers,
                   calls, sent, errors, unbindCalls, injectedShown, toolbar>>

\* public async quit(): await this.backend.unbindAllShortcuts(). The app calls it
\* once, when it is closed, at whatever point init() has reached.
Quit ==
    /\ quitState = "running"
    /\ quitState' = "quit"
    /\ unbindCalls' = unbindCalls + 1
    /\ shortcutBound' = UnbindAllShortcuts(shortcutBound)
    /\ UNCHANGED <<initState, windowCreated, surface, hideTimeout, timers, calls, sent,
                   errors, injectedShown, toolbar>>

\* ------------------------------------------------------------------ showMenu()

\* The shortcut callback: showMenu() issues both queries and returns.
\*   first (kept while the call is in flight): the query that settled first.
\*   hidePending (history, read by no handler; dropped when the call is fulfilled):
\*   when the shortcut fired the surface was visible with one hide pending whose
\*   delay had not yet elapsed.
ShortcutFire ==
    /\ shortcutBound
    /\ Len(calls) < MaxFires
    /\ calls' = Append(calls, [fw |-> PendingQuery, ptr |-> PendingQuery,
                               all |-> "pending", first |-> "none",
                               hidePending |-> /\ windowCreated /\ visible
                                               /\ Len(timers) = 1
                                               /\ timers[1].held
                                               /\ timers[1].rem > 0])
    /\ UNCHANGED <<initState, shortcutBound, windowCreated, surface, hideTimeout, timers,
                   sent, errors>>
    /\ UNCHANGED <<lifecycle, toolbar>>

\* A join that hands over the values in the order they arrived.
PromiseAllValues_ArrivalOrder(c) ==
    IF c.first = "ptr" THEN <<c.ptr.val, c.fw.val>> ELSE <<c.fw.val, c.ptr.val>>

\* Promise.all: the values in the order of the promises passed, [window, pointer].
PromiseAllValues(c) == <<c.fw.val, c.ptr.val>>

\* A .catch that swallows the error.
ShowMenuCatch_Silent(i) == errors' = errors

\* .catch((err) => console.error(...))
ShowMenuCatch(i) == errors' = errors \cup {i}

\* .then(([window, pointer]) => ...). With this.window still null the send throws
\* and the .catch logs it.
ShowMenuThen(i, values) ==
    LET pointer == values[2]
    IN /\ timers' = IF hideTimeout # Null THEN ClearTimeout(timers)
                    ELSE timers
       /\ hideTimeout' = hideTimeout
       /\ IF windowCreated
          THEN /\ sent' = Append(sent, [id |-> i, payload |-> pointer,
                                        latest |-> Len(calls)])
               /\ focusable' = TRUE
               /\ ignoreMouse' = FALSE
               /\ visible' = TRUE
               /\ errors' = errors
          ELSE /\ ShowMenuCatch(i)
               /\ UNCHANGED <<sent, surface>>

\* A query promise of invocation i settles to c; Promise.all settles with it when
\* this is the first rejection or the second resolution.
Settle(i, c) ==
    /\ UNCHANGED <<initState, shortcutBound, windowCreated, lifecycle, toolbar>>
    /\ IF c.all = "pending" /\ (c.fw.st = "rejected" \/ c.ptr.st = "rejected")
       THEN /\ calls' = [calls EXCEPT ![i] = [c EXCEPT !.all = "rejected", !.first = "none"]]
            /\ ShowMenuCatch(i)
            /\ UNCHANGED <<surface, hideTimeout, timers, sent>>
       ELSE IF c.all = "pending" /\ c.fw.st = "resolved" /\ c.ptr.st = "resolved"
       THEN /\ calls' = [calls EXCEPT ![i] = [c EXCEPT !.all = "fulfilled", !.hidePending = FALSE,
                                                     !.first = "none"]]
            /\ ShowMenuThen(i, PromiseAllValues(c))
       ELSE /\ calls' = [calls EXCEPT ![i] = c]
            /\ UNCHANGED <<surface, hideTimeout, timers, sent, errors>>

ResolveFocusedWindow(i, w) ==
    /\ calls[i].all = "pending"
    /\ calls[i].fw.st = "pending"
    /\ Settle(i, [calls[i] EXCEPT !.fw = Resolved(w), !.first = IF @ = "none" THEN "fw" ELSE @])

RejectFocusedWindow(i) ==
    /\ calls[i].all = "pending"
    /\ calls[i].fw.st = "pending"
    /\ Settle(i, [calls[i] EXCEPT !.fw = RejectedQuery, !.first = IF @ = "none" THEN "fw" ELSE @])

ResolvePointer(i, p) ==
    /\ calls[i].all = "pending"
    /\ calls[i].ptr.st = "pending"
    /\ Settle(i, [calls[i] EXCEPT !.ptr = Resolved(p), !.first = IF @ = "none" THEN "ptr" ELSE @])

RejectPointer(i) ==
    /\ calls[i].all = "pending"
    /\ calls[i].ptr.st = "pending"
    /\ Settle(i, [calls[i] EXCEPT !.ptr = RejectedQuery, !.first = IF @ = "none" THEN "ptr" ELSE @])

\* ------------------------------------------------------------------ specification

Next ==
    \/ BackendInitOk
    \/ BackendInitFail
    \/ BindShortcutOk
    \/ BindShortcutFail
    \/ InitWindowOk
    \/ InitWindowFail
    \/ \E delay \in Delays : HideWindow(delay)
    \/ TimerFire
    \/ Tick
    \/ SimulateShortcut
    \/ Quit
    \/ ShortcutFire
    \/ \E i \in DOMAIN calls : \E w \in Windows : ResolveFocusedWindow(i, w)
    \/ \E i \in DOMAIN calls : RejectFocusedWindow(i)
    \/ \E i \in DOMAIN calls : \E p \in Pointers : ResolvePointer(i, p)
    \/ \E i \in DOMAIN calls : RejectPointer(i)

Spec == Init /\ [][Next]_vars

\* The event loop runs a due timer, and time does not stop.
FairSpec == Spec /\ WF_vars(TimerFire) /\ WF_vars(Tick)

\* ------------------------------------------------------------------ Toolbar

\* initTabs(): the six tabs and whether each covers the entire editor.
Tabs ==
    << [id |-> "kando-menus-tab", large |-> FALSE],
       [id |-> "kando-add-items-tab", large |-> FALSE],
       [id |-> "kando-stash-tab", large |-> FALSE],
       [id |-> "kando-trash-tab", large |-> FALSE],
       [id |-> "kando-editor-themes-tab", large |-> TRUE],
       [id |-> "kando-menu-themes-tab", large |-> TRUE] >>

\* The 'shown.bs.tab' listener whose else branch leaves the class list alone.
ShownTab_NoRemove(tab) ==
    /\ Len(shownTabs) < MaxTabEvents
    /\ shownTabs' = Append(shownTabs, tab.id)
    /\ IF tab.large
       THEN /\ large' = TRUE
            /\ emitted' = Append(emitted, "expand")
       ELSE /\ large' = large
            /\ emitted' = Append(emitted, "collapse")
    /\ UNCHANGED <<initState, shortcutBound, windowCreated, surface, hideTimeout, timers,
                   calls, sent, errors, lifecycle>>

\* element.addEventListener('shown.bs.tab', () => ...) of one tab:
\* classList.add('large') / classList.remove('large'), then emit.
ShownTab(tab) ==
    /\ Len(shownTabs) < MaxTabEvents
    /\ shownTabs' = Append(shownTabs, tab.id)
    /\ IF tab.large
       THEN /\ large' = TRUE
            /\ emitted' = Append(emitted, "expand")
       ELSE /\ large' = FALSE
            /\ emitted' = Append(emitted, "collapse")
    /\ UNCHANGED <<initState, shortcutBound, windowCreated, surface, hideTimeout, timers,
                   calls, sent, errors, lifecycle>>

\* The Toolbar once constructed: the class list of the toolbar area comes from the
\* template, with or without 'large'.
ToolbarInit ==
    /\ AppInit
    /\ large \in BOOLEAN
    /\ shownTabs = <<>>
    /\ emitted = <<>>

ToolbarNext == \E k \in DOMAIN Tabs : ShownTab(Tabs[k])

ToolbarSpec == ToolbarInit /\ [][ToolbarNext]_vars

\* ------------------------------------------------------------------ surface states

Hidden == ~visible

VisibleInteractive == visible /\ focusable /\ ~ignoreMouse

VisiblePendingHide == visible /\ ~focusable /\ ignoreMouse

\* this.hideTimeout refers to a timer that is still armed.
HideArmed == HeldTimers(timers) # {}

\* The step is the run of a hide timer's callback (the only step that disarms a
\* timer and settles no Promise.all).
TimerCallbackStep == Len(timers') < Len(timers) /\ calls' = calls

\* The step sends 'show-menu' for invocation i.
DispatchStep(i) == Len(sent') > Len(sent) /\ sent'[Len(sent')].id = i

\* ------------------------------------------------------------------ claims

\* C1: the handle hideTimeout is non-null exactly when the surface is
\* Visible-PendingHide (never PendingHide without a handle, never Hidden or
\* Visible-Interactive with one).
C1_TimerIffPendingHide == (hideTimeout # Null) <=> VisiblePendingHide

\* C2: a request-hide followed by a shortcut firing before the delay has elapsed:
\* while that invocation is in flight the pending timer's callback does not hide
\* the visible surface, and when the queries have resolved the surface is
\* Visible-Interactive.
C2_PreemptedHideNeverRuns ==
    [][\A i \in DOMAIN calls :
         (calls[i].all = "pending" /\ calls[i].hidePending) =>
            /\ ~(TimerCallbackStep /\ Len(timers) = 1 /\ visible /\ ~visible')
            /\ calls'[i].all = "fulfilled" => VisibleInteractive']_vars

\* C3: once 'show-menu' was dispatched no hide timer of an earlier 'hide-window'
\* is armed, and the surface leaves Visible-Interactive only by a 'hide-window'
\* (which arms a timer) or a 'simulate-shortcut' (which touches no timer).
C3_NoTimerSurvivesShow ==
    [][/\ Len(sent') > Len(sent) => timers' = <<>>
       /\ (VisibleInteractive /\ ~VisibleInteractive') =>
             (Len(timers') > Len(timers) \/ timers' = timers)]_vars

\* C4: every 'show-menu' message carries {pointer, focusedWindow} of its invocation.
C4_PayloadHasPointerAndWindow ==
    \A k \in DOMAIN sent :
        sent[k].payload = [pointer |-> calls[sent[k].id].ptr.val,
                           focusedWindow |-> calls[sent[k].id].fw.val]

\* C5: an invocation in which one query rejected and the other resolved has logged
\* the failure and has still dispatched 'show-menu'.
C5_BestEffortOnReject ==
    \A i \in DOMAIN calls :
        (\/ calls[i].fw.st = "rejected" /\ calls[i].ptr.st = "resolved"
         \/ calls[i].ptr.st = "rejected" /\ calls[i].fw.st = "resolved") =>
            /\ i \in errors
            /\ \E k \in DOMAIN sent : sent[k].id = i

\* C6: after every handler the surface is focusable exactly when it is not
\* click-through; in particular it is never visible, idle, unfocusable and
\* accepting clicks.
C6_FocusableIffNotClickThrough ==
    /\ focusable = ~ignoreMouse
    /\ (visible /\ hideTimeout = Null) => ~(~focusable /\ ~ignoreMouse)

\* C6 witness: the surface was shown and a 'hide-window' has made it click-through.
C6_Witness == VisiblePendingHide /\ HideArmed /\ sent # <<>>

\* No invocation superseded by a later firing is still in flight.
NoStaleInFlight == \A i \in DOMAIN calls : calls[i].all = "pending" => i = Len(calls)

\* C7 as claimed: from a pending hide (the surface visible, the timer of hideTimeout
\* armed), unless the shortcut fires again, the surface becomes Hidden with the
\* handle cleared; and while the hide is pending the surface is unfocusable and
\* click-through. (Stated for the runs in which no superseded invocation is in
\* flight, so that the overlap of invocations plays no part.)
C7_HideAfterRequest ==
    /\ [](HideArmed => ~focusable /\ ignoreMouse)
    /\ \A n \in 0..MaxFires :
          (VisiblePendingHide /\ HideArmed /\ NoStaleInFlight /\ Len(calls) = n)
             ~> ((Hidden /\ hideTimeout = Null) \/ Len(calls) > n)

\* No invocation's Promise.all is still pending.
NoneInFlight == \A i \in DOMAIN calls : calls[i].all # "pending"

\* C7 (amended): as C7, for a pending hide with no invocation still in flight (a
\* later shortcut firing puts one in flight).
C7_HideAfterRequestIdle ==
    /\ [](HideArmed => ~focusable /\ ignoreMouse)
    /\ (VisiblePendingHide /\ HideArmed /\ NoneInFlight)
          ~> ((Hidden /\ hideTimeout = Null) \/ ~NoneInFlight)

\* C7 witness: the surface was shown, a hide was requested and its timer has hidden
\* the surface and cleared the handle.
C7_Witness ==
    /\ Hidden /\ hideTimeout = Null /\ timers = <<>>
    /\ ~focusable /\ ignoreMouse
    /\ sent # <<>> /\ NoneInFlight

\* C8: no invocation dispatches 'show-menu' after a later one was triggered, so the
\* messages reach the renderer in the order the invocations were triggered.
C8_SupersededNeverDispatches ==
    [][\A i \in DOMAIN calls :
         DispatchStep(i) => /\ i = Len(calls)
                            /\ \A k \in DOMAIN sent : sent[k].id < i]_vars

C10_QueryBeforeShown ==
    [][Len(calls') > Len(calls) => ~(windowCreated /\ visible)]_vars

\* C11: the task that handles a shortcut firing cancels the pending hide timer before
\* it issues the queries (after that task the timer of hideTimeout is not armed),
\* so no hide timer's callback runs while an invocation's queries are in flight.
C11_CancelAtFiring ==
    [][/\ Len(calls') > Len(calls) => ~HideArmed'
       /\ TimerCallbackStep => NoneInFlight]_vars

\* C12: a shortcut firing is handled by showMenu only once init() has completed:
\* the window is created and the IPC handlers are registered.
C12_NoInvocationBeforeInitDone ==
    [][Len(calls') > Len(calls) => (initState = "ready" /\ windowCreated)]_vars

\* C13: once backend.init() or backend.bindShortcut() has failed, init() has
\* rejected for good, no window exists, no shortcut is bound, and no step changes
\* the surface, the hide timer, the invocations, the messages sent or the log.
C13_FailedInitIsInert ==
    /\ [](initState = "failed" => (~windowCreated /\ ~shortcutBound /\ Hidden
                                    /\ timers = <<>> /\ calls = <<>> /\ sent = <<>>))
    /\ [][initState = "failed" =>
            /\ initState' = "failed"
            /\ UNCHANGED <<shortcutBound, windowCreated, surface, hideTimeout, timers,
                           calls, sent, errors, injectedShown>>]_vars

\* C13 witness: init() has failed and quit() has run; nothing was created, bound,
\* sent or logged.
C13_Witness ==
    /\ initState = "failed" /\ quitState = "quit"
    /\ ~windowCreated /\ ~shortcutBound /\ calls = <<>> /\ sent = <<>> /\ errors = {}

\* The shortcut was bound by init() (whatever became of the window afterwards).
BoundByInit == initState \in {"bound", "ready", "windowFailed"}

\* C14: no 'simulate-shortcut' injects the key combo while the surface is shown,
\* and a Hidden surface (in particular the one the handler leaves, with or without
\* a hide timer armed) becomes visible only in the step in which a fulfilled
\* invocation dispatches 'show-menu'.
C14_InjectAfterHide ==
    /\ [](~injectedShown)
    /\ [][(Hidden /\ ~Hidden') =>
            \E i \in DOMAIN calls : DispatchStep(i) /\ calls'[i].all = "fulfilled"]_vars

\* C14 witness: 'simulate-shortcut' has hidden the shown, interactive surface while
\* a hide timer was armed (the surface is hidden and still focusable, the stale
\* handle of an earlier hide is still set: no timer callback did the hiding).
C14_Witness ==
    /\ Hidden /\ focusable /\ ~ignoreMouse
    /\ hideTimeout = Handle /\ timers # <<>> /\ sent # <<>>

\* C15: quit() calls backend.unbindAllShortcuts() once; called after init() has
\* bound the shortcut it leaves no shortcut bound, and from then on the shortcut
\* stays unbound and no invocation starts.
C15_QuitUnbindsOnce ==
    /\ [](unbindCalls = IF quitState = "quit" THEN 1 ELSE 0)
    /\ [][/\ (quitState = "running" /\ quitState' = "quit" /\ BoundByInit) => ~shortcutBound'
          /\ (quitState = "quit" /\ BoundByInit /\ ~shortcutBound) =>
                (~shortcutBound' /\ Len(calls') = Len(calls))]_vars

\* C15 witness: quit() was called with the window ready and the shortcut bound,
\* at a point where a further firing would still have been handled.
C15_Witness ==
    /\ quitState = "quit" /\ unbindCalls = 1 /\ initState = "ready"
    /\ ~shortcutBound /\ calls # <<>> /\ Len(calls) < MaxFires

\* C16: every 'shown.bs.tab' event has emitted exactly one event, 'expand' for the
\* two themes tabs and 'collapse' for the other four, and after an event the
\* toolbar area carries 'large' exactly when the tab shown last is a themes tab.
C16_ExpandIffThemesTab ==
    LET themes == {"kando-editor-themes-tab", "kando-menu-themes-tab"}
        others == {"kando-menus-tab", "kando-add-items-tab", "kando-stash-tab",
                   "kando-trash-tab"}
    IN /\ Len(emitted) = Len(shownTabs)
       /\ \A k \in DOMAIN shownTabs :
            /\ shownTabs[k] \in themes => emitted[k] = "expand"
            /\ shownTabs[k] \in others => emitted[k] = "collapse"
            /\ shownTabs[k] \in themes \cup others
       /\ shownTabs # <<>> => (large <=> shownTabs[Len(shownTabs)] \in themes)

\* C16 witness: a themes tab, then the menus tab, then the other themes tab were
\* shown: expanded, collapsed and expanded again.
C16_Witness ==
    /\ shownTabs = <<"kando-editor-themes-tab", "kando-menus-tab", "kando-menu-themes-tab">>
    /\ emitted = <<"expand", "collapse", "expand">>
    /\ large

\* C17: showMenu calls clearTimeout only on the handle of a timer that is armed
\* (never on one that has fired or was cancelled before), and an invocation with
\* no hide in flight changes no timer.
C17_ClearOnlyArmedHandle ==
    [][\A i \in DOMAIN calls :
         (calls[i].all = "pending" /\ calls'[i].all = "fulfilled") =>
            /\ hideTimeout # Null => HideArmed
            /\ ~HideArmed => timers' = timers]_vars

\* C18: at most one hide timer is armed, and an armed timer is the one hideTimeout
\* refers to.
C18_OneTimerReferenced ==
    /\ Len(timers) <= 1
    /\ \A k \in DOMAIN timers : timers[k].held /\ hideTimeout = Handle

\* C19: the step in which an invocation's Promise.all rejects logs the error and
\* changes neither the surface, nor hideTimeout, nor any timer, nor the messages
\* sent; and a hide timer's callback, whenever it runs, leaves the surface Hidden.
C19_RejectLeavesOverlay ==
    [][/\ \A i \in DOMAIN calls :
            (calls[i].all = "pending" /\ calls'[i].all = "rejected") =>
               /\ UNCHANGED <<surface, hideTimeout, timers, sent>>
               /\ i \in errors' /\ i \notin errors
       /\ TimerCallbackStep => Hidden']_vars

\* C19 witness: the shortcut fired with a hide pending on the visible surface, the
\* invocation was rejected and logged, and the timer has expired and hidden the
\* surface; the one message sent is the one that had shown it.
C19_Witness ==
    /\ \E i \in DOMAIN calls :
          calls[i].all = "rejected" /\ calls[i].hidePending /\ i \in errors
    /\ Len(sent) = 1 /\ NoneInFlight
    /\ Hidden /\ ~focusable /\ ignoreMouse /\ hideTimeout = Null /\ timers = <<>>

====
